---------------------------- MODULE Spec2Model ----------------------------
(***************************************************************************)
(* A model of scitools' easyviz movie encoder                              *)
(* (lib/scitools/easyviz/movie.py): MovieEncoder.__init__, encode, the     *)
(* six command builders, _any2any and the movie() function.                *)
(*                                                                         *)
(* File names and patterns are Python strings, modelled as sequences of    *)
(* one-character strings, so that glob expansion, the printf-placeholder   *)
(* rewriting, os.path.splitext and "for f in input_files" over a string    *)
(* are computed character by character as Python computes them.            *)
(* An optional value (None or v) is the sequence <<>> or <<v>>.            *)
(***************************************************************************)
EXTENDS Integers, Sequences, FiniteSets, TLC

\* ------------------------------------------------------------- bounds
\* Number of frame files the scenarios put on disk (indices 0..MaxFrames-1).
MaxFrames == 2
\* Number of digits of the zero-padded frame index in the frame file names.
PadWidth == 1
\* How many options/environment facts of a scenario differ from the defaults.
MaxDeviations == 3
\* The same, for the scenarios that vary the set of installed programs.
MaxProbeDeviations == 1
\* The same, for the scenarios that vary the quantization scales.
MaxScalesDeviations == 2
\* The same, for the scenarios that call encode() more than once.
MaxAgainDeviations == 3
\* How many times encode() is called on one MovieEncoder object.
MaxRuns == 2
\* The same limit on non-default values, for the scenarios with two jobs.
MaxPairDeviations == 2

\* ------------------------------------------------------------ strings
None == <<>>
Some(v) == <<v>>
IsNone(o) == o = <<>>
Val(o) == o[1]

\* The characters used, in ASCII order (for the ranges of a glob class and
\* for list.sort()).
Ascii ==
  <<"%", "*", "-", ".", "/", "0", "1", "2", "3", "4", "5", "6", "7", "8",
    "9", "?", "[", "]", "_", "a", "b", "c", "d", "e", "f", "g", "h", "i",
    "j", "k", "l", "m", "n", "o", "p", "q", "r", "s", "t", "u", "v", "w",
    "x", "y", "z">>
Ord(c) == CHOOSE i \in 1..Len(Ascii) : Ascii[i] = c
Digits == <<"0", "1", "2", "3", "4", "5", "6", "7", "8", "9">>
IsDigit(c) == \E i \in 1..10 : Digits[i] = c
DigitVal(c) == (CHOOSE i \in 1..10 : Digits[i] = c) - 1

\* s[i:] and s[:i] of Python, with 1-based i
From(s, i) == SubSeq(s, i, Len(s))
Upto(s, i) == SubSeq(s, 1, i)

RECURSIVE Rep(_, _)
Rep(s, n) == IF n <= 0 THEN <<>> ELSE s \o Rep(s, n - 1)

RECURSIVE Join(_, _)
\* sep.join(list)
Join(sep, list) ==
  IF list = <<>> THEN <<>>
  ELSE IF Len(list) = 1 THEN list[1]
  ELSE list[1] \o sep \o Join(sep, Tail(list))

\* str < str of Python: lexicographic on character codes
RECURSIVE LexLess(_, _)
LexLess(a, b) ==
  IF b = <<>> THEN FALSE
  ELSE IF a = <<>> THEN TRUE
  ELSE IF a[1] = b[1] THEN LexLess(Tail(a), Tail(b))
  ELSE Ord(a[1]) < Ord(b[1])

RECURSIVE SortedList(_)
\* the list of the set's strings after list.sort()
SortedList(S) ==
  IF S = {} THEN <<>>
  ELSE LET m == CHOOSE x \in S : \A y \in S \ {x} : LexLess(x, y)
       IN  <<m>> \o SortedList(S \ {m})

RECURSIVE DecimalDigits(_)
DecimalDigits(n) ==
  IF n < 10 THEN <<Digits[n + 1]>>
  ELSE DecimalDigits(n \div 10) \o <<Digits[(n % 10) + 1]>>

\* "%0<w>d" % n
ZeroPad(n, w) ==
  LET d == DecimalDigits(n) IN Rep(<<"0">>, w - Len(d)) \o d

RECURSIVE IntOf(_)
\* int(digits)
IntOf(ds) ==
  IF ds = <<>> THEN 0
  ELSE 10 * IntOf(Upto(ds, Len(ds) - 1)) + DigitVal(ds[Len(ds)])

\* s.rfind(c), 1-based; 0 when absent
RFind(s, c) ==
  LET I == {i \in 1..Len(s) : s[i] = c}
  IN  IF I = {} THEN 0 ELSE CHOOSE i \in I : \A j \in I : j <= i

\* os.path.splitext(p)[1]: the last dot after the last '/', unless only
\* dots precede it in the file name
SplitextExt(p) ==
  LET sep == RFind(p, "/")
      dot == RFind(p, ".")
  IN  IF dot > sep /\ \E k \in (sep + 1)..(dot - 1) : p[k] # "."
      THEN From(p, dot)
      ELSE <<>>

\* os.path.split(p)[0]: the directory part of p
SplitHead(p) ==
  LET sep == RFind(p, "/")
      head == Upto(p, sep)
  IN  IF sep = 0 THEN <<>>
      ELSE IF \A k \in 1..sep : p[k] = "/" THEN head
      ELSE LET Last == CHOOSE k \in 1..sep :
                         /\ head[k] # "/"
                         /\ \A j \in (k + 1)..sep : head[j] = "/"
           IN  Upto(head, Last)

\* ---------------------------------------------- glob and the placeholder
DigitClass == <<"[", "0", "-", "9", "]">>

\* re.search(r'(.*)%(\d+)d(.*\..*)', s): the positions i of a '%' that is
\* followed by digits, a 'd' and a rest holding a dot
PlaceholderAt(s) ==
  {i \in 1..Len(s) :
     /\ s[i] = "%"
     /\ \E j \in (i + 2)..Len(s) :
          /\ \A k \in (i + 1)..(j - 1) : IsDigit(s[k])
          /\ s[j] = "d"
          /\ \E k \in (j + 1)..Len(s) : s[k] = "."}
HasPlaceholder(s) == PlaceholderAt(s) # {}

\* pre + '[0-9]'*num + ext for the match; group 1 is greedy, so the match
\* is at the last such position
RewritePlaceholder(s) ==
  LET i == CHOOSE x \in PlaceholderAt(s) : \A y \in PlaceholderAt(s) : y <= x
      j == CHOOSE x \in (i + 2)..Len(s) :
             /\ s[x] = "d"
             /\ \A k \in (i + 1)..(x - 1) : IsDigit(s[k])
      pre == Upto(s, i - 1)
      num == IntOf(SubSeq(s, i + 1, j - 1))
      ext == From(s, j + 1)
  IN  pre \o Rep(DigitClass, num) \o ext

\* glob.has_magic
HasMagic(p) == \E i \in 1..Len(p) : p[i] \in {"*", "?", "["}

\* fnmatch.translate: the end of the class opened at p[1] = '[' (the index
\* of its ']'), 0 when the '[' is literal
ClassEnd(p) ==
  LET a == IF Len(p) >= 2 /\ p[2] = "!" THEN 3 ELSE 2
      b == IF Len(p) >= a /\ p[a] = "]" THEN a + 1 ELSE a
      J == {j \in b..Len(p) : p[j] = "]"}
  IN  IF J = {} THEN 0 ELSE CHOOSE j \in J : \A k \in J : j <= k

RECURSIVE InItems(_, _)
\* c against the items of a regular-expression class: ranges x-y and
\* single characters
InItems(items, c) ==
  IF items = <<>> THEN FALSE
  ELSE IF Len(items) >= 3 /\ items[2] = "-"
       THEN \/ (Ord(items[1]) <= Ord(c) /\ Ord(c) <= Ord(items[3]))
            \/ InItems(From(items, 4), c)
       ELSE items[1] = c \/ InItems(Tail(items), c)

InClass(stuff, c) ==
  IF stuff # <<>> /\ stuff[1] = "!" THEN ~InItems(Tail(stuff), c)
  ELSE InItems(stuff, c)

RECURSIVE FnMatch(_, _)
\* fnmatch.fnmatch(name, pat)
FnMatch(name, pat) ==
  IF pat = <<>> THEN name = <<>>
  ELSE IF pat[1] = "*"
       THEN FnMatch(name, Tail(pat))
            \/ (name # <<>> /\ FnMatch(Tail(name), pat))
  ELSE IF pat[1] = "?"
       THEN name # <<>> /\ FnMatch(Tail(name), Tail(pat))
  ELSE IF pat[1] = "[" /\ ClassEnd(pat) # 0
       THEN /\ name # <<>>
            /\ InClass(SubSeq(pat, 2, ClassEnd(pat) - 1), name[1])
            /\ FnMatch(Tail(name), From(pat, ClassEnd(pat) + 1))
  ELSE name # <<>> /\ name[1] = pat[1] /\ FnMatch(Tail(name), Tail(pat))

\* glob.glob(pattern) on the files of the working directory (the model's
\* file names have no directory part): without magic the pattern itself if
\* it exists; with magic the matching names, hidden ones only for a pattern
\* that starts with a dot.  The result's order is the directory's, so it is
\* a set here.
Glob(files, pattern) ==
  IF ~HasMagic(pattern)
  THEN IF pattern \in files THEN {pattern} ELSE {}
  ELSE {f \in files :
          /\ f # <<>>
          /\ (f[1] = "." => pattern[1] = ".")
          /\ FnMatch(f, pattern)}


\* ------------------------------------------------------ program constants
\* MovieEncoder._legal_encoders, in the order __init__ probes them
LegalEncoders ==
  <<"mencoder", "ffmpeg", "mpeg_encode", "ppmtompeg", "mpeg2enc", "convert">>
LegalEncoderSet == {LegalEncoders[i] : i \in 1..Len(LegalEncoders)}

\* MovieEncoder._legal_file_types
LegalFileTypes ==
  {<<"p", "n", "g">>, <<"g", "i", "f">>, <<"j", "p", "g">>, <<"p", "s">>,
   <<"e", "p", "s">>, <<"b", "m", "p">>, <<"t", "i", "f">>,
   <<"t", "g", "a">>, <<"p", "n", "m">>}

Png == <<"p", "n", "g">>
Pnm == <<"p", "n", "m">>
Jpg == <<"j", "p", "g">>
DotPng == <<".", "p", "n", "g">>
DotPnm == <<".", "p", "n", "m">>
\* basename = 'easyviz_tmp_'
TmpBasename == <<"e", "a", "s", "y", "v", "i", "z", "_", "t", "m", "p", "_">>
\* "%s.mpeg_encode-input" % basename
MpegEncodeFile ==
  TmpBasename \o <<".", "m", "p", "e", "g", "_", "e", "n", "c", "o", "d", "e",
                   "-", "i", "n", "p", "u", "t">>
MovieGif == <<"m", "o", "v", "i", "e", ".", "g", "i", "f">>
MovieAvi == <<"m", "o", "v", "i", "e", ".", "a", "v", "i">>
MovieMpeg == <<"m", "o", "v", "i", "e", ".", "m", "p", "e", "g">>

\* _any2any's netpbm_converters: extension -> <<anytopnm, pnmtoany>>
NetpbmConverters(ext) ==
  CASE ext = DotPng -> <<"pngtopnm", "pnmtopng">>
    [] ext = <<".", "g", "i", "f">> -> <<"giftopnm", "ppmtogif">>
    [] ext = <<".", "j", "p", "g">> -> <<"jpegtopnm", "pnmtojpeg">>
    [] ext = <<".", "p", "s">> -> <<"pstopnm", "pnmtops">>
    [] ext = <<".", "e", "p", "s">> -> <<"pstopnm", "pnmtops">>
    [] ext = <<".", "b", "m", "p">> -> <<"bmptopnm", "ppmtobmp">>
    [] ext = <<".", "t", "i", "f">> -> <<"tifftopnm", "pnmtotiff">>
    [] ext = <<".", "t", "g", "a">> -> <<"tgatopnm", "ppmtotga">>
    [] ext = DotPnm -> <<"cat", "">>
NetpbmExts ==
  {DotPng, <<".", "g", "i", "f">>, <<".", "j", "p", "g">>, <<".", "p", "s">>,
   <<".", "e", "p", "s">>, <<".", "b", "m", "p">>, <<".", "t", "i", "f">>,
   <<".", "t", "g", "a">>, DotPnm}

\* ---------------------------------------------------------- the host
\* The programs of the Netpbm package the converter may call, and the other
\* helper programs of the builders.
NetpbmPrograms ==
  {"pngtopnm", "pnmtopng", "giftopnm", "ppmtogif", "jpegtopnm", "pnmtojpeg",
   "pstopnm", "pnmtops", "bmptopnm", "ppmtobmp", "tifftopnm", "pnmtotiff",
   "tgatopnm", "ppmtotga", "pnmscale"}
YuvPrograms == {"png2yuv", "jpeg2yuv", "yuvscaler"}
HelperPrograms == NetpbmPrograms \cup YuvPrograms \cup {"cat"}
AllPrograms == LegalEncoderSet \cup HelperPrograms

VARIABLES
  args,        \* the call's input_files and keyword arguments (an option
               \* that is not given stands at its default)
  prop,        \* self._prop: the options, and file_type once __init__ set it
  installed,   \* the programs on the host's search path
  fs,          \* the regular files of the working directory
  fs0,         \* the files that existed when movie() was called
  pc,          \* "new", "constructed", "built", "ran", "done" or "raised"
  err,         \* the exception that ended the job, "none" if none
  tmp_files,   \* self._tmp_files: <<>> while the attribute is unset, else <<list>>
  cmd,         \* the command string of encode(), as its list of words
  procs,       \* the external processes started so far, in order
  created,     \* the files written by the job's converters and builders
  failure,     \* the encoder's exit status: <<>> before os.system(cmd)
  printed,     \* the messages printed so far
  param_file,  \* what _mpeg_encode wrote to its parameter file, <<>> if nothing
  statuses,    \* what each conversion command of the current encode() did
  runs,        \* the number of calls of encode() so far
  calls,       \* how many times the caller calls encode() on the object
  other        \* a second job of the same call, run by another process in the
               \* same directory: its position, its _tmp_files, its output
               \* file, and the files
               \* of the first job's _tmp_files it wrote over or removed
               \* before the first job's encoder ran
vars ==
  <<args, prop, installed, fs, fs0, pc, err, tmp_files, cmd, procs, created,
    failure, printed, param_file, statuses, runs, calls, other>>

\* scitools.misc.findprograms(program): is the program on the search path
FindProgram(program) == program \in installed
\* scitools.misc.findprograms((p1, p2, ...)) used as a condition: all found
FindPrograms(programs) == programs \subseteq installed

\* os.path.isfile(f)
IsFile(f) == f \in fs

\* an encoder selection that keeps the last program found, not the first
SelectLastEncoder(encoder) ==
  IF IsNone(encoder)
  THEN LET found == {i \in 1..Len(LegalEncoders) : FindProgram(LegalEncoders[i])}
       IN  IF found = {}
           THEN [err |-> "NoEncoderInstalled", encoder |-> None]
           ELSE [err |-> "none",
                 encoder |-> Some(LegalEncoders[CHOOSE i \in found :
                                                  \A j \in found : i >= j])]
  ELSE [err |-> "none", encoder |-> encoder]

\* an encoder selection that does not look for the program of a given encoder
SelectUnprobedEncoder(encoder) ==
  IF IsNone(encoder)
  THEN LET found == {i \in 1..Len(LegalEncoders) : FindProgram(LegalEncoders[i])}
       IN  IF found = {}
           THEN [err |-> "NoEncoderInstalled", encoder |-> None]
           ELSE [err |-> "none",
                 encoder |-> Some(LegalEncoders[CHOOSE i \in found :
                                                  \A j \in found : i <= j])]
  ELSE IF Val(encoder) \notin LegalEncoderSet
       THEN [err |-> "IllegalEncoder", encoder |-> encoder]
  ELSE [err |-> "none", encoder |-> encoder]

\* an encoder selection that falls back to convert when it finds no program
SelectFallbackEncoder(encoder) ==
  IF IsNone(encoder)
  THEN LET found == {i \in 1..Len(LegalEncoders) : FindProgram(LegalEncoders[i])}
       IN  IF found = {}
           THEN [err |-> "none", encoder |-> Some("convert")]
           ELSE [err |-> "none",
                 encoder |-> Some(LegalEncoders[CHOOSE i \in found :
                                                  \A j \in found : i <= j])]
  ELSE IF Val(encoder) \notin LegalEncoderSet
       THEN [err |-> "IllegalEncoder", encoder |-> encoder]
  ELSE IF ~FindProgram(Val(encoder))
       THEN [err |-> "EncoderNotInstalled", encoder |-> encoder]
  ELSE [err |-> "none", encoder |-> encoder]

\* lines 45-61 of MovieEncoder.__init__: the encoder to use; an error tag or "none", and the encoder
SelectEncoder(encoder) ==
  IF IsNone(encoder)
  THEN LET found == {i \in 1..Len(LegalEncoders) : FindProgram(LegalEncoders[i])}
       IN  IF found = {}
           THEN [err |-> "NoEncoderInstalled", encoder |-> None]
           ELSE [err |-> "none",
                 encoder |-> Some(LegalEncoders[CHOOSE i \in found :
                                                  \A j \in found : i <= j])]
  ELSE IF Val(encoder) \notin LegalEncoderSet
       THEN [err |-> "IllegalEncoder", encoder |-> encoder]
  ELSE IF ~FindProgram(Val(encoder))
       THEN [err |-> "EncoderNotInstalled", encoder |-> encoder]
  ELSE [err |-> "none", encoder |-> encoder]

\* "for f in input_files": the items of a list, the characters of a string
Items(input) ==
  IF input.kind = "list" THEN input.v
  ELSE [i \in 1..Len(input.v) |-> <<input.v[i]>>]

\* lines 80-86: error_encountered is reset in every pass of the loop, so it
\* holds what the last item gave
ErrorEncountered(input) ==
  LET items == Items(input)
  IN  items # <<>> /\ ~IsFile(items[Len(items)])

\* lines 63-95: the input check; an error tag or "none", and the file type
CheckInput(input) ==
  IF input.kind = "list" /\ input.v = <<>>
  THEN [err |-> "IndexError", file_type |-> None]
  ELSE
  LET file_ == IF input.kind = "list" THEN input.v[1] ELSE input.v
      ext == SplitextExt(file_)
  IN  IF input.kind = "str" /\ Glob(fs, input.v) = {}
      THEN [err |-> "NoFilesOfForm", file_type |-> None]
      ELSE IF ErrorEncountered(input)
      THEN [err |-> "InputFilesNotFound", file_type |-> None]
      ELSE IF ext = <<>>
      THEN [err |-> "NoFileType", file_type |-> None]
      ELSE IF Tail(ext) \notin LegalFileTypes
      THEN [err |-> "IllegalFileType", file_type |-> None]
      ELSE [err |-> "none", file_type |-> Some(Tail(ext))]

\* MovieEncoder._local_prop
LocalProp ==
  [input_files |-> None, output_file |-> None, overwrite_output |-> TRUE,
   encoder |-> None, fps |-> [milli |-> 25000, float |-> FALSE],
   size |-> None, aspect |-> None, preferred_package |-> "imagemagick",
   qscale |-> None, iqscale |-> None, pqscale |-> None, bqscale |-> None,
   force_conversion |-> FALSE, cleanup |-> TRUE]

\* lines 38-43: _local_prop updated with input_files and the keyword
\* arguments that are options
UpdatedProp == [k \in DOMAIN LocalProp |-> args[k]]

\* me = MovieEncoder(input_files, **kwargs)
Construct ==
  /\ pc = "new"
  /\ LET sel == SelectEncoder(args.encoder)
         chk == CheckInput(args.input_files)
     IN  IF sel.err # "none"
         THEN /\ err' = sel.err
              /\ pc' = "raised"
              /\ prop' = UpdatedProp
         ELSE IF chk.err # "none"
         THEN /\ err' = chk.err
              /\ pc' = "raised"
              /\ prop' = [UpdatedProp EXCEPT !.encoder = sel.encoder]
         ELSE /\ err' = "none"
              /\ pc' = "constructed"
              /\ prop' = ("file_type" :> chk.file_type)
                         @@ [UpdatedProp EXCEPT !.encoder = sel.encoder]
  /\ UNCHANGED <<args, installed, fs, fs0, tmp_files, cmd, procs, created,
                 failure, printed, param_file, statuses, runs, calls,
                 other>>

\* ---------------------------------------------------- command words
\* A command string is the list of its words: a literal, a file name or
\* pattern, or a number.
Word(w) == [s |-> w, f |-> <<>>, n |-> 0]
File(name) == [s |-> "", f |-> name, n |-> 0]
Num(k) == [s |-> "", f |-> <<>>, n |-> k]
Files(list) == [i \in 1..Len(list) |-> File(list[i])]

\* the result of a builder: what it raised, the command, and what it did
\* to the object and the disk before it returned or raised
Built(e, c, tmp, out, np, wr, par) ==
  [err |-> e, cmd |-> c, tmp |-> tmp, output_file |-> out, nconv |-> np,
   written |-> wr, param |-> par]

\* MovieEncoder._get_size for a (width, height) pair or None
GetSize == prop.size

\* the files of a string input in a builder: the placeholder rewritten,
\* glob.glob, files.sort()
ResolveString(s) ==
  SortedList(Glob(fs, IF HasPlaceholder(s) THEN RewritePlaceholder(s) ELSE s))

\* ------------------------------------------------ MovieEncoder._any2any
\* What one conversion command can do: exit 0 with its file written, or
\* exit non-zero with or without an output file left behind.
Outcomes == {"ok", "failed", "failed_wrote"}

\* lines 607-614: the program that converts; "" when none is found
ConverterApp(anytopnm, pnmtoany) ==
  IF FindPrograms({"convert", anytopnm, pnmtoany})
  THEN IF prop.preferred_package = "imagemagick" THEN "convert" ELSE anytopnm
  ELSE IF FindProgram("convert") THEN "convert"
  ELSE IF ~FindPrograms({anytopnm, pnmtoany}) THEN ""
  ELSE anytopnm

\* "%s%04d%s" % (basename, i, ofile_ext)
NewFile(basename, i, ofile_ext) == basename \o ZeroPad(i, 4) \o ofile_ext

RECURSIVE ConvertLoopCountingAll(_, _, _, _, _, _, _)
\* a conversion loop whose counter moves on for a failed file too
ConvertLoopCountingAll(files, oc, k, i, basename, ofile_ext, shell) ==
  IF k > Len(files) THEN [new_files |-> <<>>, written |-> {}]
  ELSE
  LET new_file == NewFile(basename, i, ofile_ext)
      ok == oc[k] = "ok"
      wrote == ok \/ oc[k] = "failed_wrote" \/ shell
      rest == ConvertLoopCountingAll(files, oc, k + 1, i + 1, basename,
                                     ofile_ext, shell)
  IN  [new_files |-> (IF ok THEN <<new_file>> ELSE <<>>) \o rest.new_files,
       written |-> (IF wrote THEN {new_file} ELSE {}) \cup rest.written]

RECURSIVE ConvertLoop(_, _, _, _, _, _, _)
\* lines 618-658, from the k-th file on, with counter i: the new files and
\* the files written.  A Netpbm command redirects into new_file, which the
\* shell creates whatever the exit status; the counter moves on success only.
ConvertLoop(files, oc, k, i, basename, ofile_ext, shell) ==
  IF k > Len(files) THEN [new_files |-> <<>>, written |-> {}]
  ELSE
  LET new_file == NewFile(basename, i, ofile_ext)
      ok == oc[k] = "ok"
      wrote == ok \/ oc[k] = "failed_wrote" \/ shell
      rest == ConvertLoop(files, oc, k + 1, IF ok THEN i + 1 ELSE i,
                          basename, ofile_ext, shell)
  IN  [new_files |-> (IF ok THEN <<new_file>> ELSE <<>>) \o rest.new_files,
       written |-> (IF wrote THEN {new_file} ELSE {}) \cup rest.written]

\* a converter that raises when no conversion command exited with zero
Any2AnyRaisingOnEmpty(files, basename, ofile_ext, oc) ==
  LET loop == ConvertLoop(files, oc, 1, 1, basename, ofile_ext, FALSE)
  IN  IF loop.new_files = <<>>
      THEN [err |-> "NoValidFiles", new_files |-> <<>>, written |-> {},
            nconv |-> 0]
      ELSE [err |-> "none", new_files |-> loop.new_files,
            written |-> loop.written, nconv |-> Len(files)]

\* self._any2any(files, basename, size, ofile_ext) with the exit statuses oc
Any2Any(files, basename, ofile_ext, oc) ==
  IF files = <<>>
  THEN [err |-> "IndexError", new_files |-> <<>>, written |-> {}, nconv |-> 0]
  ELSE IF SplitextExt(files[1]) \notin NetpbmExts
  THEN [err |-> "KeyError", new_files |-> <<>>, written |-> {}, nconv |-> 0]
  ELSE
  LET anytopnm == NetpbmConverters(SplitextExt(files[1]))[1]
      pnmtoany == NetpbmConverters(ofile_ext)[2]
      app == ConverterApp(anytopnm, pnmtoany)
      loop == ConvertLoop(files, oc, 1, 1, basename, ofile_ext,
                          app = anytopnm)
  IN  IF app = ""
      THEN [err |-> "NoConverter", new_files |-> <<>>, written |-> {},
            nconv |-> 0]
      ELSE [err |-> "none", new_files |-> loop.new_files,
            written |-> loop.written, nconv |-> Len(files)]

\* an output check that never finds the file
OutputNeverExists(out, wr) == FALSE

\* os.path.isfile(output_file) and not overwrite_output, after the writes wr
OutputExists(out, wr) == out \in (fs \cup wr) /\ ~prop.overwrite_output

\* a builder that names the output after the encoder whatever was given
ForcedOutput(name) == Some(name)

DefaultOutput(name) ==
  IF IsNone(prop.output_file) THEN Some(name) ELSE prop.output_file

\* ------------------------------------------------ MovieEncoder._convert
BuildConvertCmd ==
  LET input == prop.input_files
      files == IF input.kind = "str" THEN ResolveString(input.v) ELSE input.v
      size == GetSize
      head == <<Word("convert"), Word("-delay"), Num(100000 \div prop.fps.milli)>>
              \o (IF IsNone(size) THEN <<>>
                  ELSE <<Word("-scale"), Num(Val(size)[1]), Num(Val(size)[2])>>)
      out == DefaultOutput(MovieGif)
  IN  IF files = <<>>
      THEN Built("NoValidFiles", <<>>, tmp_files, prop.output_file, 0, {}, None)
      ELSE IF OutputExists(Val(out), {})
      THEN Built("OutputExists", <<>>, tmp_files, out, 0, {}, None)
      ELSE Built("none", head \o Files(files) \o <<File(Val(out))>>,
                 tmp_files, out, 0, {}, None)

\* ----------------------------------------------- MovieEncoder._mencoder
\* whether _mencoder converts the files (lines 191-192)
MencoderConverts ==
  Val(prop.file_type) \notin {Jpg, Png} \/ prop.force_conversion

MencoderFiles ==
  IF prop.input_files.kind = "str" THEN ResolveString(prop.input_files.v)
  ELSE prop.input_files.v

BuildMencoderCmd(oc) ==
  LET input == prop.input_files
      files0 == MencoderFiles
      conv == IF MencoderConverts THEN Any2Any(files0, TmpBasename, DotPng, oc)
              ELSE [err |-> "none", new_files |-> files0, written |-> {},
                    nconv |-> 0]
      files == conv.new_files
      file_type == IF MencoderConverts THEN Png ELSE Val(prop.file_type)
      tmp == IF MencoderConverts THEN Some(files) ELSE tmp_files
      size == GetSize
      out == DefaultOutput(MovieAvi)
      words ==
        <<Word("mencoder"), Word("mf://"), File(Join(<<",">>, files)),
          Word("-mf"), Word("fps="), Num(prop.fps.milli), Word("type="),
          File(file_type),
          Word("-ovc lavc -lavcopts vcodec=mpeg4:mbd=1:vbitrate=800:vqmin=2:vqmax=31")>>
        \o (IF IsNone(prop.aspect) THEN <<>>
            ELSE <<Word("aspect="), File(Val(prop.aspect).str)>>)
        \o (IF IsNone(size) THEN <<>>
            ELSE <<Word("-vf scale="), Num(Val(size)[1]), Num(Val(size)[2])>>)
        \o <<Word("-o"), File(Val(out))>>
  IN  IF input.kind = "str" /\ files0 = <<>>
      THEN Built("NoValidFiles", <<>>, tmp_files, prop.output_file, 0, {}, None)
      ELSE IF conv.err # "none"
      THEN Built(conv.err, <<>>, tmp_files, prop.output_file, 0, {}, None)
      ELSE IF OutputExists(Val(out), conv.written)
      THEN Built("OutputExists", <<>>, tmp, out, conv.nconv, conv.written, None)
      ELSE Built("none", words, tmp, out, conv.nconv, conv.written, None)

\* ------------------------------------------------- MovieEncoder._ffmpeg
\* a printf pattern that is never passed on
NeverKeepsPattern == FALSE

\* lines 261-275 (and 477-491 of _mpeg2enc): a string with a placeholder
\* stays a string for jpg/png files unless force_conversion; anything else
\* becomes the list of files
KeepsPattern ==
  /\ prop.input_files.kind = "str"
  /\ HasPlaceholder(prop.input_files.v)
  /\ Val(prop.file_type) \in {Jpg, Png}
  /\ ~prop.force_conversion

FrameFiles ==
  IF prop.input_files.kind = "str" THEN ResolveString(prop.input_files.v)
  ELSE prop.input_files.v

\* a pattern without the zero padding of the copies' names
TmpPatternUnpadded == TmpBasename \o <<"%", "d">> \o DotPng

TmpPattern == TmpBasename \o <<"%", "0", "4", "d">> \o DotPng

BuildFfmpegCmd(oc) ==
  LET conv == IF KeepsPattern
              THEN [err |-> "none", new_files |-> <<>>, written |-> {},
                    nconv |-> 0]
              ELSE Any2Any(FrameFiles, TmpBasename, DotPng, oc)
      tmp == IF KeepsPattern THEN tmp_files ELSE Some(conv.new_files)
      pattern == IF KeepsPattern THEN prop.input_files.v ELSE TmpPattern
      size == GetSize
      out == DefaultOutput(MovieAvi)
      words ==
        <<Word("ffmpeg"), Word("-i"), File(pattern), Word("-b"), Num(800),
          Word("-r"), Num(prop.fps.milli)>>
        \o (IF IsNone(size) THEN <<>>
            ELSE <<Word("-s"), Num(Val(size)[1]), Num(Val(size)[2])>>)
        \o <<Word("-vcodec mpeg4")>>
        \o (IF prop.overwrite_output THEN <<Word("-y")>> ELSE <<>>)
        \o (IF IsNone(prop.aspect) THEN <<>>
            ELSE <<Word("-aspect"), File(Val(prop.aspect).str)>>)
        \o (IF IsNone(prop.qscale) THEN <<Word("-qmin 2 -qmax 31")>>
            ELSE <<Word("-qscale"), Num(Val(prop.qscale))>>)
        \o <<File(Val(out))>>
  IN  IF conv.err # "none"
      THEN Built(conv.err, <<>>, tmp_files, prop.output_file, 0, {}, None)
      ELSE Built("none", words, tmp, out, conv.nconv, conv.written, None)

\* -------------------------------------------- MovieEncoder._mpeg_encode
\* frame rates that let 2 frames per second through
LenientFrameRates ==
  {2000, 23976, 24000, 25000, 29970, 30000, 50000, 59940, 60000}

\* legal_frame_rates, in thousandths
LegalFrameRates == {23976, 24000, 25000, 29970, 30000, 50000, 59940, 60000}
\* legal_aspects of _mpeg_encode, in ten-thousandths
LegalAspects ==
  {10000, 6735, 7031, 7615, 8055, 8437, 8935, 9157, 9815, 10255, 10695,
   10950, 11575, 12015}

\* whether _mpeg_encode converts the files (lines 364-365)
MpegEncodeConverts ==
  ~IsNone(GetSize) \/ Val(prop.file_type) # Pnm \/ prop.force_conversion

\* quantization scales that take no account of qscale
QScalesWithoutQscale ==
  LET Pick(x, dflt) == IF ~IsNone(x) THEN Val(x) ELSE dflt
  IN  [iqscale |-> Pick(prop.iqscale, 8), pqscale |-> Pick(prop.pqscale, 10),
       bqscale |-> Pick(prop.bqscale, 25)]

\* lines 393-405: the quantization scales for I, P and B frames
QScales ==
  LET q == prop.qscale
      Pick(x, dflt) == IF ~IsNone(x) THEN Val(x)
                       ELSE IF ~IsNone(q) THEN Val(q) ELSE dflt
  IN  [iqscale |-> Pick(prop.iqscale, 8), pqscale |-> Pick(prop.pqscale, 10),
       bqscale |-> Pick(prop.bqscale, 25)]

\* lines 368-373: files is the joined string when files[0] is taken
InputDir(joined) ==
  LET head == SplitHead(<<joined[1]>>)
  IN  IF head = <<>> THEN <<".">> ELSE head

BuildMpegEncodeCmd(oc) ==
  LET input == prop.input_files
      files0 == IF input.kind = "str" THEN ResolveString(input.v) ELSE input.v
      conv == IF MpegEncodeConverts
              THEN Any2Any(files0, TmpBasename, DotPnm, oc)
              ELSE [err |-> "none", new_files |-> files0, written |-> {},
                    nconv |-> 0]
      tmp == IF MpegEncodeConverts THEN Some(conv.new_files) ELSE tmp_files
      joined == Join(<<"\n">>, conv.new_files)
      out == DefaultOutput(MovieMpeg)
      q == QScales
      param ==
        [PATTERN |-> "I", OUTPUT |-> Val(out), GOP_SIZE |-> 15,
         INPUT_DIR |-> InputDir(joined), INPUT |-> conv.new_files,
         IQSCALE |-> q.iqscale, PQSCALE |-> q.pqscale, BQSCALE |-> q.bqscale,
         FRAME_RATE |-> prop.fps.milli \div 1000,
         ASPECT_RATIO |-> IF IsNone(prop.aspect) THEN 10000
                          ELSE Val(prop.aspect).tenk]
  IN  IF prop.fps.milli \notin LegalFrameRates
      THEN Built("IllegalFps", <<>>, tmp_files, prop.output_file, 0, {}, None)
      ELSE IF ~IsNone(prop.aspect) /\ Val(prop.aspect).tenk \notin LegalAspects
      THEN Built("IllegalAspect", <<>>, tmp_files, prop.output_file, 0, {}, None)
      ELSE IF files0 = <<>>
      THEN Built("NoValidFiles", <<>>, tmp_files, prop.output_file, 0, {}, None)
      ELSE IF conv.err # "none"
      THEN Built(conv.err, <<>>, tmp_files, prop.output_file, 0, {}, None)
      ELSE IF joined = <<>>
      THEN Built("IndexError", <<>>, tmp, prop.output_file, conv.nconv,
                 conv.written, None)
      ELSE IF OutputExists(Val(out), conv.written)
      THEN Built("OutputExists", <<>>, tmp, out, conv.nconv, conv.written, None)
      ELSE Built("none", <<Word(Val(prop.encoder)), File(MpegEncodeFile)>>,
                 Some((IF IsNone(tmp) THEN <<>> ELSE Val(tmp))
                      \o <<MpegEncodeFile>>),
                 out, conv.nconv, conv.written \cup {MpegEncodeFile},
                 Some(param))

\* ----------------------------------------------- MovieEncoder._mpeg2enc
\* str(fps) of a Python int or float given in thousandths
RECURSIVE StripZeros(_)
StripZeros(ds) ==
  IF Len(ds) > 1 /\ ds[Len(ds)] = "0" THEN StripZeros(Upto(ds, Len(ds) - 1))
  ELSE ds
FpsStr(fps) ==
  IF fps.float
  THEN DecimalDigits(fps.milli \div 1000) \o <<".">>
       \o StripZeros(ZeroPad(fps.milli % 1000, 3))
  ELSE DecimalDigits(fps.milli \div 1000)

\* legal_fps: str(fps) -> the frame-rate code; 0 when str(fps) is no key
LegalFpsCode(str) ==
  CASE str = <<"2", "3", ".", "9", "7", "6">> -> 1
    [] str = <<"2", "4">> -> 2
    [] str = <<"2", "5">> -> 3
    [] str = <<"2", "9", ".", "9", "7">> -> 4
    [] str = <<"3", "0">> -> 5
    [] str = <<"5", "0">> -> 6
    [] str = <<"5", "9", ".", "9", "4">> -> 7
    [] str = <<"6", "0">> -> 8
    [] OTHER -> 0

\* legal_aspects of _mpeg2enc: the code of an aspect, 0 when it has none.
\* A number equal to a code stands for itself; else the key its str() starts
\* with gives the code.
StartsWith(s, k) == Len(s) >= Len(k) /\ Upto(s, Len(k)) = k
AspectCode(aspect) ==
  IF aspect.tenk \in {10000, 20000, 30000, 40000} THEN aspect.tenk \div 10000
  ELSE IF StartsWith(aspect.str, <<"1", ".", "0">>) THEN 1
  ELSE IF StartsWith(aspect.str, <<"1", ".", "3">>) THEN 2
  ELSE IF StartsWith(aspect.str, <<"1", ".", "7">>) THEN 3
  ELSE IF StartsWith(aspect.str, <<"2", ".", "2", "1">>) THEN 4
  ELSE 0

\* pattern % i for a pattern with one %0<w>d or %<w>d
PrintfFormat(pattern, i) ==
  LET a == CHOOSE x \in PlaceholderAt(pattern) : TRUE
      b == CHOOSE x \in (a + 2)..Len(pattern) :
             /\ pattern[x] = "d"
             /\ \A k \in (a + 1)..(x - 1) : IsDigit(pattern[k])
      spec == SubSeq(pattern, a + 1, b - 1)
      d == DecimalDigits(i)
      pad == IF spec[1] = "0" THEN <<"0">> ELSE <<" ">>
  IN  Upto(pattern, a - 1) \o Rep(pad, IntOf(spec) - Len(d)) \o d
      \o From(pattern, b + 1)

\* lines 511-514: the first i in xrange(9999) with pattern % i a file; the
\* candidates are read off the files that exist
StartImage(pattern, files) ==
  LET a == CHOOSE x \in PlaceholderAt(pattern) : TRUE
      b == CHOOSE x \in (a + 2)..Len(pattern) :
             /\ pattern[x] = "d"
             /\ \A k \in (a + 1)..(x - 1) : IsDigit(pattern[k])
      rest == Len(pattern) - b
      Mid(f) == SubSeq(f, a, Len(f) - rest)
      cand == {IntOf(Mid(f)) : f \in
                 {g \in files : /\ Len(g) >= a + rest
                                /\ \A k \in a..(Len(g) - rest) : IsDigit(g[k])}}
      hits == {i \in cand : i < 9999 /\ PrintfFormat(pattern, i) \in files}
  IN  IF hits = {} THEN None
      ELSE Some(CHOOSE i \in hits : \A j \in hits : i <= j)

BuildMpeg2encCmd(oc) ==
  LET conv == IF KeepsPattern
              THEN [err |-> "none", new_files |-> <<>>, written |-> {},
                    nconv |-> 0]
              ELSE Any2Any(FrameFiles, TmpBasename, DotPng, oc)
      tmp == IF KeepsPattern THEN tmp_files ELSE Some(conv.new_files)
      pattern == IF KeepsPattern THEN prop.input_files.v ELSE TmpPattern
      file_type == IF KeepsPattern THEN Val(prop.file_type) ELSE Png
      yuv == IF file_type = Jpg /\ FindProgram("jpeg2yuv") THEN "jpeg2yuv"
             ELSE IF FindProgram("png2yuv") THEN "png2yuv"
             ELSE ""
      start == StartImage(pattern, fs \cup conv.written)
      size == GetSize
      out == DefaultOutput(MovieMpeg)
      code == LegalFpsCode(FpsStr(prop.fps))
      words ==
        <<Word(yuv), Word("-f 25 -I p -j"), File(pattern)>>
        \o (IF IsNone(start) THEN <<>> ELSE <<Word("-b"), Num(Val(start))>>)
        \o (IF ~IsNone(size) /\ FindProgram("yuvscaler")
            THEN <<Word("| yuvscaler -O SIZE_"), Num(Val(size)[1]),
                   Num(Val(size)[2])>>
            ELSE <<>>)
        \o <<Word("|"), Word("mpeg2enc"), Word("-f 0"), Word("-F"), Num(code)>>
        \o (IF IsNone(prop.aspect) THEN <<>>
            ELSE IF Val(prop.aspect).tenk \in {10000, 20000, 30000, 40000}
            THEN <<Word("-a"), File(Val(prop.aspect).str)>>
            ELSE <<Word("-a"), Num(AspectCode(Val(prop.aspect)))>>)
        \o <<Word("-o"), File(Val(out))>>
  IN  IF conv.err # "none"
      THEN Built(conv.err, <<>>, tmp_files, prop.output_file, 0, {}, None)
      ELSE IF yuv = ""
      THEN Built("NoYuvProgram", <<>>, tmp, prop.output_file, conv.nconv,
                 conv.written, None)
      ELSE IF OutputExists(Val(out), conv.written)
      THEN Built("OutputExists", <<>>, tmp, out, conv.nconv, conv.written, None)
      ELSE IF code = 0
      THEN Built("NameError", <<>>, tmp, out, conv.nconv, conv.written, None)
      ELSE IF ~IsNone(prop.aspect) /\ AspectCode(Val(prop.aspect)) = 0
      THEN Built("IllegalAspect", <<>>, tmp, out, conv.nconv, conv.written, None)
      ELSE Built("none", words, tmp, out, conv.nconv, conv.written, None)

\* ------------------------------------------------- MovieEncoder.encode
\* me.encode() is called on an object that __init__ returned: for the first
\* time, or again after an earlier call returned
CanEncode == pc = "constructed" \/ (pc = "done" /\ runs < calls)

\* lines 99-106: cmd = self._<encoder>(), with what the builder did to the
\* object and the disk on the way, also when it raised; oc is what the
\* conversion commands did
Dispatch(r, oc) ==
  /\ runs' = runs + 1
  /\ statuses' = SubSeq(oc, 1, r.nconv)
  /\ failure' = None
  /\ err' = r.err
  /\ pc' = IF r.err = "none" THEN "built" ELSE "raised"
  /\ cmd' = r.cmd
  /\ tmp_files' = r.tmp
  /\ prop' = [prop EXCEPT !.output_file = r.output_file]
  /\ fs' = fs \cup r.written
  /\ created' = created \cup r.written
  /\ procs' = procs \o [i \in 1..r.nconv |-> "converter"]
  /\ param_file' = r.param
  /\ UNCHANGED <<args, installed, fs0, printed, calls,
                 other>>

\* the exit statuses of the conversion commands of n files
ExitStatuses(n) == [1..n -> Outcomes]

EncodeConvert ==
  /\ CanEncode
  /\ Val(prop.encoder) = "convert"
  /\ Dispatch(BuildConvertCmd, <<>>)

EncodeMencoder ==
  /\ CanEncode
  /\ Val(prop.encoder) = "mencoder"
  /\ \E oc \in ExitStatuses(IF MencoderConverts THEN Len(MencoderFiles) ELSE 0) :
       Dispatch(BuildMencoderCmd(oc), oc)

EncodeFfmpeg ==
  /\ CanEncode
  /\ Val(prop.encoder) = "ffmpeg"
  /\ \E oc \in ExitStatuses(IF KeepsPattern THEN 0 ELSE Len(FrameFiles)) :
       Dispatch(BuildFfmpegCmd(oc), oc)

EncodeMpegEncode ==
  /\ CanEncode
  /\ Val(prop.encoder) \in {"mpeg_encode", "ppmtompeg"}
  /\ \E oc \in ExitStatuses(IF MpegEncodeConverts THEN Len(FrameFiles) ELSE 0) :
       Dispatch(BuildMpegEncodeCmd(oc), oc)

EncodeMpeg2enc ==
  /\ CanEncode
  /\ Val(prop.encoder) = "mpeg2enc"
  /\ \E oc \in ExitStatuses(IF KeepsPattern THEN 0 ELSE Len(FrameFiles)) :
       Dispatch(BuildMpeg2encCmd(oc), oc)

\* an encoder run that raises when the exit status is not zero
RunCommandRaising ==
  /\ pc = "built"
  /\ \E status \in {0, 1}, wrote \in BOOLEAN :
       /\ status = 0 => wrote
       /\ failure' = Some(status)
       /\ fs' = IF wrote THEN fs \cup {Val(prop.output_file)} ELSE fs
       /\ printed' = IF status # 0 THEN printed
                     ELSE printed \cup {"movie in output file"}
       /\ pc' = IF status # 0 THEN "raised" ELSE "ran"
       /\ err' = IF status # 0 THEN "EncoderFailed" ELSE err
  /\ procs' = Append(procs, "encoder")
  /\ UNCHANGED <<args, prop, installed, fs0, tmp_files, cmd, created,
                 param_file, statuses, runs, calls,
                 other>>

\* lines 108-115: failure = os.system(cmd).  The encoder writes the output
\* file when it exits 0, and may leave a partial one when it does not.
RunCommand ==
  /\ pc = "built"
  /\ \E status \in {0, 1}, wrote \in BOOLEAN :
       /\ status = 0 => wrote
       /\ failure' = Some(status)
       /\ fs' = IF wrote THEN fs \cup {Val(prop.output_file)} ELSE fs
       /\ printed' = printed \cup {IF status # 0 THEN "could not make movie"
                                   ELSE "movie in output file"}
  /\ procs' = Append(procs, "encoder")
  /\ pc' = "ran"
  /\ UNCHANGED <<args, prop, installed, fs0, err, tmp_files, cmd, created,
                 param_file, statuses, runs, calls,
                 other>>

RECURSIVE RemoveAll(_, _)
\* for tmp_file in list: os.remove(tmp_file), which raises OSError for a
\* file that does not exist
RemoveAll(list, files) ==
  IF list = <<>> THEN [err |-> "none", fs |-> files]
  ELSE IF list[1] \notin files THEN [err |-> "OSError", fs |-> files]
  ELSE RemoveAll(Tail(list), files \ {list[1]})

\* a cleanup that runs before the encoder command is executed
CleanupEarly ==
  /\ pc = "built"
  /\ LET r == IF prop.cleanup /\ ~IsNone(tmp_files)
              THEN RemoveAll(Val(tmp_files), fs)
              ELSE [err |-> "none", fs |-> fs]
     IN  /\ fs' = r.fs
         /\ err' = r.err
         /\ pc' = IF r.err = "none" THEN "done" ELSE "raised"
  /\ UNCHANGED <<args, prop, installed, fs0, tmp_files, cmd, procs, created,
                 failure, printed, param_file, statuses, runs, calls,
                 other>>

\* a cleanup that takes no account of the cleanup option
CleanupAlways ==
  /\ pc = "ran"
  /\ LET r == IF ~IsNone(tmp_files)
              THEN RemoveAll(Val(tmp_files), fs)
              ELSE [err |-> "none", fs |-> fs]
     IN  /\ fs' = r.fs
         /\ err' = r.err
         /\ pc' = IF r.err = "none" THEN "done" ELSE "raised"
  /\ UNCHANGED <<args, prop, installed, fs0, tmp_files, cmd, procs, created,
                 failure, printed, param_file, statuses, runs, calls,
                 other>>

\* a cleanup that is skipped when the encoder failed
CleanupOnSuccess ==
  /\ pc = "ran"
  /\ LET r == IF prop.cleanup /\ ~IsNone(tmp_files) /\ Val(failure) = 0
              THEN RemoveAll(Val(tmp_files), fs)
              ELSE [err |-> "none", fs |-> fs]
     IN  /\ fs' = r.fs
         /\ err' = r.err
         /\ pc' = IF r.err = "none" THEN "done" ELSE "raised"
  /\ UNCHANGED <<args, prop, installed, fs0, tmp_files, cmd, procs, created,
                 failure, printed, param_file, statuses, runs, calls,
                 other>>

\* lines 117-120
Cleanup ==
  /\ pc = "ran"
  /\ LET r == IF prop.cleanup /\ ~IsNone(tmp_files)
              THEN RemoveAll(Val(tmp_files), fs)
              ELSE [err |-> "none", fs |-> fs]
     IN  /\ fs' = r.fs
         /\ err' = r.err
         /\ pc' = IF r.err = "none" THEN "done" ELSE "raised"
  /\ UNCHANGED <<args, prop, installed, fs0, tmp_files, cmd, procs, created,
                 failure, printed, param_file, statuses, runs, calls,
                 other>>

\* ------------------------------------------------------- the scenarios
\* The frame files on disk are f<index><.ext>, the index zero-padded; a
\* frame file without extension has ext = <<>>.
Suffix(ext) == IF ext = <<>> THEN <<>> ELSE <<".">> \o ext
Frame(ext, i) == <<"f">> \o ZeroPad(i, PadWidth) \o Suffix(ext)
GlobInput(ext) == <<"f", "*">> \o Suffix(ext)
PrintfInput(ext) ==
  <<"f", "%", "0">> \o DecimalDigits(PadWidth) \o <<"d">> \o Suffix(ext)
\* a wildcard without an extension of its own
GlobAny == <<"f", "*">>
\* an extension that is not a legal file type
Txt == <<"t", "x", "t">>
OutGif == <<"o", "u", "t", ".", "g", "i", "f">>
\* the directory part of frames that are given as 'd/f0.png', ...
SubDir == <<"d", "/">>

\* the lists of frame indices given: all frames in order, the same in
\* reverse, and the empty list
AllFrames == [i \in 1..MaxFrames |-> i - 1]
IndexLists ==
  {AllFrames, [i \in 1..MaxFrames |-> MaxFrames - i], <<>>}

\* the options qscale, iqscale, pqscale and bqscale of a call
NoScales == [q |-> None, i |-> None, p |-> None, b |-> None]
AllScales ==
  [q : {None, Some(5)}, i : {None, Some(3)}, p : {None, Some(4)},
   b : {None, Some(6)}] \ {NoScales}

\* the input_files argument of a scenario
InputOf(c) ==
  IF c.input.kind = "glob" THEN [kind |-> "str", v |-> GlobInput(c.ext)]
  ELSE IF c.input.kind = "globany" THEN [kind |-> "str", v |-> GlobAny]
  ELSE IF c.input.kind = "printf"
  THEN [kind |-> "str", v |-> PrintfInput(c.ext)]
  ELSE IF c.input.kind = "dirlist"
  THEN [kind |-> "list",
        v |-> [i \in 1..Len(c.input.idx) |->
                 SubDir \o Frame(c.ext, c.input.idx[i])]]
  ELSE [kind |-> "list",
        v |-> [i \in 1..Len(c.input.idx) |-> Frame(c.ext, c.input.idx[i])]]

\* the frames of a list given with a directory part, in the subdirectory
FramesInDir(c) ==
  IF c.input.kind = "dirlist"
  THEN {SubDir \o Frame(c.ext, i) : i \in 0..(c.nframes - 1)}
  ELSE {}

\* files named like the last character of a string input, and like the
\* string itself
LiteralFiles(c) ==
  LET input == InputOf(c)
  IN  IF input.kind # "str" \/ c.literal = "none" THEN {}
      ELSE {<<input.v[Len(input.v)]>>}
           \cup (IF c.literal = "char+pattern" THEN {input.v} ELSE {})

\* _local_prop's defaults with all frames on disk, given as a list, and all
\* programs installed; and for each option or fact its other values
Dim(dflt, alts) == [dflt |-> dflt, alts |-> alts]
Dimensions(installedAlts, scalesAlts, callsAlts) ==
  [ext |-> Dim(Png, {Pnm, Jpg, Txt, <<>>}),
   nframes |-> Dim(MaxFrames, 0..(MaxFrames - 1)),
   input |-> Dim([kind |-> "list", idx |-> AllFrames],
                 {[kind |-> "list", idx |-> s] : s \in IndexLists \ {AllFrames}}
                 \cup {[kind |-> "glob", idx |-> <<>>],
                       [kind |-> "globany", idx |-> <<>>],
                       [kind |-> "printf", idx |-> <<>>],
                       [kind |-> "dirlist", idx |-> AllFrames]}),
   literal |-> Dim("none", {"char", "char+pattern"}),
   outexists |-> Dim(FALSE, {TRUE}),
   installed |-> Dim(AllPrograms, installedAlts),
   encoder |-> Dim(None, {Some(e) : e \in LegalEncoderSet \cup {"xine"}}),
   output_file |-> Dim(None, {Some(OutGif)}),
   overwrite_output |-> Dim(TRUE, {FALSE}),
   fps |-> Dim([milli |-> 25000, float |-> FALSE],
               {[milli |-> 2000, float |-> FALSE],
                [milli |-> 23976, float |-> TRUE]}),
   size |-> Dim(None, {Some(<<320, 240>>)}),
   aspect |-> Dim(None, {Some([tenk |-> 10000, str |-> <<"1", ".", "0">>]),
                         Some([tenk |-> 15000, str |-> <<"1", ".", "5">>])}),
   preferred_package |-> Dim("imagemagick", {"netpbm"}),
   force_conversion |-> Dim(FALSE, {TRUE}),
   cleanup |-> Dim(TRUE, {FALSE}),
   scales |-> Dim(NoScales, scalesAlts),
   calls |-> Dim(1, callsAlts)]

\* the values of a dimension while k more non-defaults are allowed, and
\* what a value leaves of k
Pick(d, k) == IF k > 0 THEN {d.dflt} \cup d.alts ELSE {d.dflt}
Left(d, v, k) == IF v = d.dflt THEN k ELSE k - 1

MainInstalled ==
  {{}, AllPrograms \ {"convert"}, AllPrograms \ NetpbmPrograms,
   AllPrograms \ (NetpbmPrograms \cup {"convert"}), AllPrograms \ YuvPrograms}
ProbeInstalled ==
  {E \cup HelperPrograms : E \in SUBSET LegalEncoderSet} \ {AllPrograms}

\* the call movie(input_files, **kwargs) in the working directory of c
Setup(c) ==
  /\ args =
       [input_files |-> InputOf(c),
        output_file |-> c.output_file,
        overwrite_output |-> c.overwrite_output,
        encoder |-> c.encoder,
        fps |-> c.fps,
        size |-> c.size,
        aspect |-> c.aspect,
        preferred_package |-> c.preferred_package,
        qscale |-> c.scales.q, iqscale |-> c.scales.i,
        pqscale |-> c.scales.p, bqscale |-> c.scales.b,
        force_conversion |-> c.force_conversion,
        cleanup |-> c.cleanup]
  /\ prop = LocalProp
  /\ installed = c.installed
  /\ fs = {Frame(c.ext, i) : i \in 0..(c.nframes - 1)}
          \cup LiteralFiles(c)
          \cup FramesInDir(c)
          \cup (IF c.outexists THEN {MovieAvi, MovieMpeg, MovieGif, OutGif}
                ELSE {})
  /\ fs0 = fs
  /\ pc = "new"
  /\ err = "none"
  /\ tmp_files = None
  /\ cmd = <<>>
  /\ procs = <<>>
  /\ created = {}
  /\ failure = None
  /\ printed = {}
  /\ param_file = None
  /\ statuses = <<>>
  /\ runs = 0
  /\ calls = c.calls
  /\ other = [pc |-> "constructed", tmp |-> None, out |-> None, lost |-> {}]

\* the scenarios with at most k non-default values
ScenarioInit(D, k) ==
  \E ext \in Pick(D.ext, k) :
  LET k1 == Left(D.ext, ext, k) IN
  \E nframes \in Pick(D.nframes, k1) :
  LET k2 == Left(D.nframes, nframes, k1) IN
  \E input \in Pick(D.input, k2) :
  LET k3 == Left(D.input, input, k2) IN
  \E literal \in Pick(D.literal, k3) :
  LET k4 == Left(D.literal, literal, k3) IN
  \E outexists \in Pick(D.outexists, k4) :
  LET k5 == Left(D.outexists, outexists, k4) IN
  \E inst \in Pick(D.installed, k5) :
  LET k6 == Left(D.installed, inst, k5) IN
  \E encoder \in Pick(D.encoder, k6) :
  LET k7 == Left(D.encoder, encoder, k6) IN
  \E output_file \in Pick(D.output_file, k7) :
  LET k8 == Left(D.output_file, output_file, k7) IN
  \E overwrite_output \in Pick(D.overwrite_output, k8) :
  LET k9 == Left(D.overwrite_output, overwrite_output, k8) IN
  \E fps \in Pick(D.fps, k9) :
  LET k10 == Left(D.fps, fps, k9) IN
  \E size \in Pick(D.size, k10) :
  LET k11 == Left(D.size, size, k10) IN
  \E aspect \in Pick(D.aspect, k11) :
  LET k12 == Left(D.aspect, aspect, k11) IN
  \E preferred_package \in Pick(D.preferred_package, k12) :
  LET k13 == Left(D.preferred_package, preferred_package, k12) IN
  \E force_conversion \in Pick(D.force_conversion, k13) :
  LET k14 == Left(D.force_conversion, force_conversion, k13) IN
  \E cleanup \in Pick(D.cleanup, k14) :
  LET k15 == Left(D.cleanup, cleanup, k14) IN
  \E scales \in Pick(D.scales, k15) :
  LET k16 == Left(D.scales, scales, k15) IN
  \E ncalls \in Pick(D.calls, k16) :
    Setup([ext |-> ext, nframes |-> nframes, input |-> input,
           literal |-> literal, outexists |-> outexists,
           installed |-> inst, encoder |-> encoder,
           output_file |-> output_file,
           overwrite_output |-> overwrite_output, fps |-> fps, size |-> size,
           aspect |-> aspect, preferred_package |-> preferred_package,
           force_conversion |-> force_conversion, cleanup |-> cleanup,
           scales |-> scales, calls |-> ncalls])

\* the dimensions D with only those of keep varied
Narrow(D, keep) ==
  [d \in DOMAIN D |-> IF d \in keep THEN D[d] ELSE Dim(D[d].dflt, {})]

\* movie(input_files, **kwargs): one call of encode()
Init == ScenarioInit(Dimensions(MainInstalled, {}, {}), MaxDeviations)

InitProbe ==
  ScenarioInit(Dimensions(ProbeInstalled, {}, {}), MaxProbeDeviations)

InitScales ==
  ScenarioInit(Dimensions({}, AllScales, {}), MaxScalesDeviations)

\* me = MovieEncoder(input_files, **kwargs) and several calls of me.encode()
InitAgain ==
  ScenarioInit(Narrow(Dimensions({}, {}, 2..MaxRuns),
                      {"ext", "encoder", "size", "force_conversion",
                       "cleanup", "calls"}),
               MaxAgainDeviations)

Next ==
  \/ Construct
  \/ EncodeConvert
  \/ EncodeMencoder
  \/ EncodeFfmpeg
  \/ EncodeMpegEncode
  \/ EncodeMpeg2enc
  \/ RunCommand
  \/ Cleanup

Spec == Init /\ [][Next]_vars
SpecProbe == InitProbe /\ [][Next]_vars
SpecScales == InitScales /\ [][Next]_vars
SpecAgain == InitAgain /\ [][Next]_vars

\* ------------------------------------- a second job in the same directory
\* Another process runs the same call in the same working directory; its
\* steps interleave with the steps of the first job.  Both take the
\* basename 'easyviz_tmp_' (the default of _any2any and the basename of
\* _mpeg_encode), so both write and remove the same file names.

\* the builder of the chosen encoder converts the input files
BuilderConverts ==
  LET e == Val(prop.encoder)
  IN  IF e = "convert" THEN FALSE
      ELSE IF e = "mencoder" THEN MencoderConverts
      ELSE IF e \in {"mpeg_encode", "ppmtompeg"} THEN MpegEncodeConverts
      ELSE ~KeepsPattern

\* cmd = self._<encoder>() of a job that converts
BuilderResult(oc) ==
  LET e == Val(prop.encoder)
  IN  IF e = "mencoder" THEN BuildMencoderCmd(oc)
      ELSE IF e = "ffmpeg" THEN BuildFfmpegCmd(oc)
      ELSE IF e \in {"mpeg_encode", "ppmtompeg"} THEN BuildMpegEncodeCmd(oc)
      ELSE BuildMpeg2encCmd(oc)

\* the files of the first job's _tmp_files while its encoder has not run
Unconsumed ==
  IF pc = "built" /\ ~IsNone(tmp_files)
  THEN {Val(tmp_files)[i] : i \in DOMAIN Val(tmp_files)}
  ELSE {}

\* the second job's cmd = self._<encoder>(): what the builder did
OtherDispatch(r) ==
  /\ other' = [pc |-> IF r.err = "none" THEN "built" ELSE "raised",
               tmp |-> r.tmp,
               out |-> r.output_file,
               lost |-> r.written \cap Unconsumed]
  /\ fs' = fs \cup r.written
  /\ UNCHANGED <<args, prop, installed, fs0, pc, err, tmp_files, cmd, procs,
                 created, failure, printed, param_file, statuses, runs, calls>>

\* the second job's encode() up to the return of its builder
OtherEncode ==
  /\ "file_type" \in DOMAIN prop
  /\ other.pc = "constructed"
  /\ BuilderConverts
  /\ \E oc \in ExitStatuses(Len(FrameFiles)) : OtherDispatch(BuilderResult(oc))

\* the second job's os.system(cmd)
OtherRunCommand ==
  /\ other.pc = "built"
  /\ other' = [other EXCEPT !.pc = "ran"]
  /\ \E wrote \in BOOLEAN :
       fs' = IF wrote THEN fs \cup {Val(other.out)} ELSE fs
  /\ UNCHANGED <<args, prop, installed, fs0, pc, err, tmp_files, cmd, procs,
                 created, failure, printed, param_file, statuses, runs, calls>>

\* a second job that leaves its temporary files
OtherCleanupKeeping ==
  /\ other.pc = "ran"
  /\ other' = [other EXCEPT !.pc = "done"]
  /\ UNCHANGED <<args, prop, installed, fs, fs0, pc, err, tmp_files, cmd,
                 procs, created, failure, printed, param_file, statuses, runs,
                 calls>>

\* the second job's cleanup loop
OtherCleanup ==
  /\ other.pc = "ran"
  /\ LET r == IF prop.cleanup /\ ~IsNone(other.tmp)
              THEN RemoveAll(Val(other.tmp), fs)
              ELSE [err |-> "none", fs |-> fs]
     IN  /\ fs' = r.fs
         /\ other' = [other EXCEPT
                        !.pc = IF r.err = "none" THEN "done" ELSE "raised",
                        !.lost = @ \cup ((fs \ r.fs) \cap Unconsumed)]
  /\ UNCHANGED <<args, prop, installed, fs0, pc, err, tmp_files, cmd, procs,
                 created, failure, printed, param_file, statuses, runs, calls>>

InitPair ==
  ScenarioInit(Narrow(Dimensions({}, {}, {}),
                      {"ext", "encoder", "size", "force_conversion",
                       "cleanup"}),
               MaxPairDeviations)

NextPair ==
  \/ Construct
  \/ EncodeConvert
  \/ EncodeMencoder
  \/ EncodeFfmpeg
  \/ EncodeMpegEncode
  \/ EncodeMpeg2enc
  \/ RunCommand
  \/ Cleanup
  \/ OtherEncode
  \/ OtherRunCommand
  \/ OtherCleanup

SpecPair == InitPair /\ [][NextPair]_vars

\* ============================================================ the claims
\* __init__ chose an encoder (none of the three encoder errors was raised)
EncoderAvailable ==
  /\ pc # "new"
  /\ err \notin {"NoEncoderInstalled", "IllegalEncoder", "EncoderNotInstalled"}
\* __init__ returned: it adds file_type as its last step
Constructed == "file_type" \in DOMAIN prop
\* encode() has called the builder of the chosen encoder
Dispatched == Constructed /\ pc # "constructed"
\* the encoder commands started so far
EncoderRuns == Len(SelectSeq(procs, LAMBDA p : p = "encoder"))
\* the input is a string without a printf placeholder
WildcardInput ==
  /\ args.input_files.kind = "str"
  /\ ~HasPlaceholder(args.input_files.v)
  /\ HasMagic(args.input_files.v)
PrintfStringInput ==
  /\ args.input_files.kind = "str"
  /\ HasPlaceholder(args.input_files.v)

\* C1: movie('<wildcard>') with matching frames on disk, no encoder named
\* and a supported encoder installed passes the input validation (neither
\* the no-matching-files nor the missing-input error), and the finished job
\* has run exactly one encoder command.
C1_BasicUsageRuns ==
  (/\ pc # "new"
   /\ WildcardInput
   /\ Glob(fs0, args.input_files.v) # {}
   /\ IsNone(args.encoder)
   /\ installed \cap LegalEncoderSet # {})
  => /\ err \notin {"NoFilesOfForm", "InputFilesNotFound"}
     /\ pc = "done" => EncoderRuns = runs

\* C2: a list input with one or more paths that are not on disk always
\* fails in __init__ with the missing-input error, before any process starts.
C2_MissingPathRejected ==
  (/\ EncoderAvailable
   /\ args.input_files.kind = "list"
   /\ \E i \in DOMAIN args.input_files.v : args.input_files.v[i] \notin fs0)
  => /\ pc = "raised"
     /\ err = "InputFilesNotFound"
     /\ procs = <<>>

\* C3: a printf-style pattern whose numbered frames are on disk is accepted:
\* the job does not fail with the no-matching-files error.
C3_PrintfPatternAccepted ==
  (/\ EncoderAvailable
   /\ PrintfStringInput
   /\ Glob(fs0, RewritePlaceholder(args.input_files.v)) # {})
  => err # "NoFilesOfForm"

\* C4: an input that resolves to zero files (a string with no match, or an
\* empty list) always fails with the no-matching-files error, never another.
C4_ZeroFilesError ==
  (/\ EncoderAvailable
   /\ \/ args.input_files.kind = "list" /\ args.input_files.v = <<>>
      \/ args.input_files.kind = "str" /\ Glob(fs0, args.input_files.v) = {})
  => /\ pc = "raised"
     /\ err = "NoFilesOfForm"

\* C5: with cleanup true, once the encoder process has run and encode() has
\* ended, every file of _tmp_files is gone from the disk, whether the
\* encoder exited with zero or not.
C5_TmpFilesRemoved ==
  (/\ prop.cleanup
   /\ ~IsNone(failure)
   /\ pc \in {"done", "raised"}
   /\ ~IsNone(tmp_files))
  => \A i \in DOMAIN Val(tmp_files) : Val(tmp_files)[i] \notin fs
\* a failed encoder after conversions, cleaned up
C5_Witness ==
  /\ pc = "done"
  /\ prop.cleanup
  /\ failure = Some(1)
  /\ ~IsNone(tmp_files)
  /\ Len(Val(tmp_files)) >= 2
  /\ \A i \in DOMAIN Val(tmp_files) : Val(tmp_files)[i] \in created
\* the same after an encoder that exited with zero
C5_WitnessSuccess ==
  /\ pc = "done"
  /\ prop.cleanup
  /\ failure = Some(0)
  /\ ~IsNone(tmp_files)
  /\ Val(tmp_files) # <<>>

\* C6: a non-zero exit status of the encoder is printed, not raised:
\* encode() goes on to its cleanup and returns without an exception (the
\* one exception encode() can still end with is the OSError of os.remove in
\* the cleanup, which does not depend on the exit status).
C6_FailureReported ==
  (~IsNone(failure) /\ Val(failure) # 0)
  => /\ "could not make movie" \in printed
     /\ \/ pc \in {"ran", "done"} /\ err = "none"
        \/ pc = "raised" /\ err = "OSError"
C6_Witness ==
  /\ pc = "done"
  /\ failure = Some(1)
  /\ "could not make movie" \in printed
  /\ "movie in output file" \notin printed

\* C7: with cleanup true, no file the job wrote (converted frames, the
\* parameter file) is on disk when the job has ended, a job that ended with
\* an error of a builder after the conversion included.
C7_NoTempLeftAtJobEnd ==
  (prop.cleanup /\ pc \in {"done", "raised"}) => created \cap fs = {}

\* C8: when the job fails with a configuration, resource or input error, no
\* external process has been started and no file has been written.
C8_ErrorsBeforeSideEffects ==
  (/\ pc = "raised"
   /\ err \in {"IllegalEncoder", "EncoderNotInstalled", "NoEncoderInstalled",
               "NoFileType", "IllegalFileType", "NoFilesOfForm",
               "InputFilesNotFound", "NoValidFiles", "IllegalFps",
               "IllegalAspect", "OutputExists", "NoConverter",
               "NoYuvProgram"})
  => /\ procs = <<>>
     /\ created = {}

\* the output file of the job: the one given, else the encoder's default
EffectiveOutput ==
  IF ~IsNone(args.output_file) THEN Val(args.output_file)
  ELSE IF Val(prop.encoder) = "convert" THEN MovieGif
  ELSE IF Val(prop.encoder) \in {"mencoder", "ffmpeg"} THEN MovieAvi
  ELSE MovieMpeg
\* the builder ran with the output file on disk and overwrite_output false
RefusedOverwrite ==
  /\ Dispatched
  /\ EffectiveOutput \in fs0
  /\ ~args.overwrite_output

SelectionOrder ==
  <<"mencoder", "ffmpeg", "mpeg_encode", "ppmtompeg", "mpeg2enc", "convert">>

\* C10: with no encoder named, the encoder used is the first installed one
\* in the order mencoder, ffmpeg, mpeg_encode, ppmtompeg, mpeg2enc, convert;
\* with none of them installed the job fails with the no-encoder error.
C10_FirstInstalledEncoder ==
  (pc # "new" /\ IsNone(args.encoder)) =>
    IF \E i \in DOMAIN SelectionOrder : SelectionOrder[i] \in installed
    THEN /\ err # "NoEncoderInstalled"
         /\ \E i \in DOMAIN SelectionOrder :
              /\ prop.encoder = Some(SelectionOrder[i])
              /\ SelectionOrder[i] \in installed
              /\ \A j \in 1..(i - 1) : SelectionOrder[j] \notin installed
    ELSE /\ pc = "raised"
         /\ err = "NoEncoderInstalled"
C10_Witness ==
  /\ pc = "constructed"
  /\ IsNone(args.encoder)
  /\ prop.encoder = Some("mpeg2enc")
  /\ "convert" \in installed
  /\ {"mencoder", "ffmpeg", "mpeg_encode", "ppmtompeg"} \cap installed = {}

\* the six supported encoder names
SupportedEncoders ==
  {"mencoder", "ffmpeg", "mpeg_encode", "ppmtompeg", "mpeg2enc", "convert"}

\* C11: a given encoder is accepted only if it is one of the six supported
\* names and its program is installed, else __init__ fails with an encoder
\* error; and whenever __init__ has returned (so whenever encode() calls a
\* builder) the encoder of the object is one of the six names.
C11_EncoderSupported ==
  /\ (pc # "new" /\ ~IsNone(args.encoder)
      /\ ~(Val(args.encoder) \in SupportedEncoders
           /\ Val(args.encoder) \in installed))
     => /\ pc = "raised"
        /\ ~Constructed
        /\ err = IF Val(args.encoder) \in SupportedEncoders
                 THEN "EncoderNotInstalled" ELSE "IllegalEncoder"
  /\ Constructed
     => /\ ~IsNone(prop.encoder)
        /\ Val(prop.encoder) \in SupportedEncoders
        /\ Val(prop.encoder) \in installed
        /\ ~IsNone(args.encoder) => prop.encoder = args.encoder
\* a supported encoder whose program is missing is refused
C11_Witness ==
  /\ pc = "raised"
  /\ err = "EncoderNotInstalled"
  /\ args.encoder = Some("convert")
  /\ "mencoder" \in installed
\* an unsupported name is refused
C11_WitnessIllegal ==
  /\ pc = "raised"
  /\ err = "IllegalEncoder"
  /\ args.encoder = Some("xine")
\* a given, installed encoder has its builder called
C11_WitnessAccepted ==
  /\ Dispatched
  /\ args.encoder = Some("mpeg2enc")
  /\ prop.encoder = Some("mpeg2enc")

\* the files the file type is to be read from: the first given file of a
\* list, the files a string matches (glob returns them in directory order)
FirstFiles ==
  IF args.input_files.kind = "list"
  THEN IF args.input_files.v = <<>> THEN {} ELSE {args.input_files.v[1]}
  ELSE Glob(fs0, args.input_files.v)
\* the file has an extension that is a supported file type
HasLegalType(f) ==
  /\ SplitextExt(f) # <<>>
  /\ Tail(SplitextExt(f)) \in
       {<<"p", "n", "g">>, <<"g", "i", "f">>, <<"j", "p", "g">>, <<"p", "s">>,
        <<"e", "p", "s">>, <<"b", "m", "p">>, <<"t", "i", "f">>,
        <<"t", "g", "a">>, <<"p", "n", "m">>}
\* __init__ got past the encoder selection and the existence checks
InputFound ==
  /\ EncoderAvailable
  /\ FirstFiles # {}
  /\ err \notin {"IndexError", "NoFilesOfForm", "InputFilesNotFound"}

\* C12: the file type of the job is the extension of the first matched
\* (string input) or first given (list input) file: when that file has a
\* supported extension the job does not fail with a file-type error and has
\* that type, and when it has none or an unsupported one the job fails with
\* the file-type error.
C12_TypeOfFirstFile ==
  InputFound =>
    /\ (\A f \in FirstFiles : HasLegalType(f))
       => /\ err \notin {"NoFileType", "IllegalFileType"}
          /\ Constructed =>
               \E f \in FirstFiles : prop.file_type = Some(Tail(SplitextExt(f)))
    /\ (\A f \in FirstFiles : ~HasLegalType(f))
       => /\ pc = "raised"
          /\ err \in {"NoFileType", "IllegalFileType"}

\* the builder of mpeg_encode/ppmtompeg has been called
MpegEncodeJob ==
  /\ Dispatched
  /\ Val(prop.encoder) \in {"mpeg_encode", "ppmtompeg"}

\* C13: for mpeg_encode and ppmtompeg an fps outside {23.976, 24, 25, 29.97,
\* 30, 50, 59.94, 60} always fails with the frame-rate error, before any
\* converter is run and before any file is written: the parameter file
\* 'easyviz_tmp_.mpeg_encode-input' is not created.
C13_IllegalFpsRefused ==
  (/\ MpegEncodeJob
   /\ args.fps.milli \notin {23976, 24000, 25000, 29970, 30000, 50000, 59940,
                             60000})
  => /\ pc = "raised"
     /\ err = "IllegalFps"
     /\ MpegEncodeFile \notin fs
     /\ IsNone(param_file)
     /\ created = {}
     /\ procs = <<>>
\* fps=2 with png frames, which the builder would otherwise convert
C13_Witness ==
  /\ MpegEncodeJob
  /\ args.fps.milli = 2000
  /\ err = "IllegalFps"
  /\ prop.file_type = Some(Png)
  /\ Len(args.input_files.v) >= 2

\* the value the claim gives for a per-frame scale x with default dflt
ScaleWritten(x, dflt) ==
  IF ~IsNone(x) THEN Val(x)
  ELSE IF ~IsNone(args.qscale) THEN Val(args.qscale)
  ELSE dflt

\* C14: in the parameter file of mpeg_encode/ppmtompeg each of IQSCALE,
\* PQSCALE, BQSCALE is the value of iqscale, pqscale, bqscale when that
\* option is set, else qscale when qscale is set, else 8, 10, 25.
C14_QuantizationScales ==
  (MpegEncodeJob /\ ~IsNone(param_file))
  => /\ Val(param_file).IQSCALE = ScaleWritten(args.iqscale, 8)
     /\ Val(param_file).PQSCALE = ScaleWritten(args.pqscale, 10)
     /\ Val(param_file).BQSCALE = ScaleWritten(args.bqscale, 25)
\* qscale=5 with pqscale=4: 5, 4, 5 are written
C14_Witness ==
  /\ MpegEncodeJob
  /\ pc = "built"
  /\ args.qscale = Some(5)
  /\ args.pqscale = Some(4)
  /\ IsNone(args.iqscale) /\ IsNone(args.bqscale)
  /\ Val(param_file).IQSCALE = 5
  /\ Val(param_file).PQSCALE = 4
  /\ Val(param_file).BQSCALE = 5
\* no scale given: 8, 10, 25 are written
C14_WitnessDefaults ==
  /\ MpegEncodeJob
  /\ pc = "built"
  /\ IsNone(args.qscale) /\ IsNone(args.iqscale)
  /\ IsNone(args.pqscale) /\ IsNone(args.bqscale)
  /\ Val(param_file).IQSCALE = 8
  /\ Val(param_file).PQSCALE = 10
  /\ Val(param_file).BQSCALE = 25

\* the number of frame files the builder hands to _any2any
NumInputs ==
  IF args.input_files.kind = "list" THEN Len(args.input_files.v)
  ELSE Cardinality(Glob(fs0, IF HasPlaceholder(args.input_files.v)
                             THEN RewritePlaceholder(args.input_files.v)
                             ELSE args.input_files.v))
\* the list _any2any returned in the current encode(): the builder stored a
\* copy in _tmp_files, and _mpeg_encode appended its parameter file
Returned ==
  IF Val(tmp_files) # <<>>
     /\ Val(tmp_files)[Len(Val(tmp_files))] = MpegEncodeFile
  THEN SubSeq(Val(tmp_files), 1, Len(Val(tmp_files)) - 1)
  ELSE Val(tmp_files)
Converted == Cardinality({k \in DOMAIN statuses : statuses[k] = "ok"})

\* C15: whatever conversions fail, _any2any runs one command per input file
\* and returns one path per file whose command exited with zero, named
\* easyviz_tmp_0001<ext>, easyviz_tmp_0002<ext>, ... without gaps or
\* duplicates.
C15_ConsecutiveNames ==
  (Dispatched /\ statuses # <<>>)
  => /\ Len(statuses) = NumInputs
     /\ ~IsNone(tmp_files)
     /\ Returned =
          [j \in 1..Converted |->
             TmpBasename \o ZeroPad(j, 4)
             \o (IF Val(prop.encoder) \in {"mpeg_encode", "ppmtompeg"}
                 THEN DotPnm ELSE DotPng)]
\* the first file failed: the second one is numbered 0001
C15_Witness ==
  /\ pc = "built"
  /\ Len(statuses) >= 2
  /\ statuses[1] # "ok"
  /\ statuses[2] = "ok"
  /\ Returned # <<>>
  /\ Returned[1] = TmpBasename \o <<"0", "0", "0", "1">> \o DotPng

\* the encoder reads the file type of the input without conversion
ReadsType(e, t) ==
  IF e = "convert" THEN TRUE
  ELSE IF e \in {"mpeg_encode", "ppmtompeg"} THEN t = Pnm
  ELSE t \in {Jpg, Png}

\* C16 as stated: the converter is invoked only when the encoder cannot read
\* the file type of the input, or force_conversion is set, or a size is
\* requested; so for jpg/png input without force_conversion and size, jobs of
\* ffmpeg, mencoder and mpeg2enc run no converter, for list, wildcard and
\* printf input alike.
C16_OnlyWhenNeeded ==
  (Dispatched /\ statuses # <<>>)
  => \/ ~ReadsType(Val(prop.encoder), Val(prop.file_type))
     \/ args.force_conversion
     \/ ~IsNone(args.size)

\* when the builder of the encoder converts the input files
ConvertsInput ==
  LET e == Val(prop.encoder)
      t == Val(prop.file_type)
  IN  IF e = "convert" THEN FALSE
      ELSE IF e = "mencoder" THEN t \notin {Jpg, Png} \/ args.force_conversion
      ELSE IF e \in {"mpeg_encode", "ppmtompeg"}
      THEN t # Pnm \/ args.force_conversion \/ ~IsNone(args.size)
      ELSE ~(PrintfStringInput /\ t \in {Jpg, Png} /\ ~args.force_conversion)

\* C16 amended: convert never converts; mencoder converts when the type is
\* not jpg/png or force_conversion is set; mpeg_encode and ppmtompeg when the
\* type is not pnm, force_conversion is set or a size is requested; ffmpeg
\* and mpeg2enc always, except for a printf pattern of jpg/png files without
\* force_conversion.  Where the builder converts and returns a command, one
\* converter ran per input file and _tmp_files is set; where it does not,
\* no converter runs, no frame copy is written and _tmp_files names at most
\* the parameter file of mpeg_encode.
C16_ConversionRule ==
  Dispatched =>
    /\ statuses # <<>> => ConvertsInput
    /\ (ConvertsInput /\ pc \in {"built", "ran", "done"})
       => /\ NumInputs > 0
          /\ Len(statuses) = NumInputs
          /\ ~IsNone(tmp_files)
    /\ ~ConvertsInput
       => /\ \A i \in DOMAIN procs : procs[i] # "converter"
          /\ created \subseteq {MpegEncodeFile}
          /\ \/ IsNone(tmp_files)
             \/ \A i \in DOMAIN Val(tmp_files) :
                   Val(tmp_files)[i] = MpegEncodeFile
\* ffmpeg is given a printf pattern of png files and passes it on
C16_Witness ==
  /\ pc = "built"
  /\ Val(prop.encoder) = "ffmpeg"
  /\ PrintfStringInput
  /\ prop.file_type = Some(Png)
  /\ procs = <<>>
  /\ IsNone(tmp_files)
  /\ \E i \in DOMAIN cmd : cmd[i] = File(args.input_files.v)
\* mpeg2enc is given a list of png files and converts each of them
C16_WitnessList ==
  /\ pc = "built"
  /\ Val(prop.encoder) = "mpeg2enc"
  /\ args.input_files.kind = "list"
  /\ prop.file_type = Some(Png)
  /\ ~args.force_conversion
  /\ IsNone(args.size)
  /\ Len(statuses) = 2

\* C17: when the encoder command is about to be executed, every file the job
\* has written and that is on disk (the output of each converter command,
\* of one that exited non-zero too, and the parameter file of mpeg_encode)
\* is listed in _tmp_files.
C17_CreatedFilesRegistered ==
  pc = "built"
  => \A f \in created \cap fs :
       /\ ~IsNone(tmp_files)
       /\ \E i \in DOMAIN Val(tmp_files) : Val(tmp_files)[i] = f

\* C18: encode() called once or twice on a job with overwrite_output and
\* cleanup true, every external command exiting with zero, ends without an
\* exception each time, and no file whose name starts with 'easyviz_tmp_'
\* is on disk afterwards.
C18_RepeatedEncode ==
  (/\ Constructed
   /\ args.overwrite_output
   /\ args.cleanup
   /\ runs >= 1
   /\ pc \in {"done", "raised"}
   /\ \A k \in DOMAIN statuses : statuses[k] = "ok"
   /\ failure = Some(0))
  => /\ pc = "done"
     /\ \A f \in fs : ~StartsWith(f, TmpBasename)

\* the frames a printf pattern stands for, in sorted order
ResolvedFrames ==
  SortedList(Glob(fs0, RewritePlaceholder(args.input_files.v)))

\* C19: a convert job with convert installed, whose input is a printf
\* pattern with its frames on disk and whose output may be overwritten,
\* raises nothing; its command is
\* 'convert -delay d ...' with d = 100/fps truncated, lists the resolved
\* frames in sorted order and ends with the output file; the finished job
\* has started exactly one external command.
C19_ConvertPrintfInput ==
  (/\ EncoderAvailable
   /\ prop.encoder = Some("convert")
   /\ PrintfStringInput
   /\ ResolvedFrames # <<>>
   /\ args.overwrite_output)
  => /\ pc # "raised"
     /\ pc \in {"built", "ran", "done"}
        => LET n == Len(cmd)
               k == Len(ResolvedFrames)
           IN  /\ n >= k + 4
               /\ cmd[1] = Word("convert")
               /\ cmd[2] = Word("-delay")
               /\ cmd[3].n * args.fps.milli <= 100000
               /\ (cmd[3].n + 1) * args.fps.milli > 100000
               /\ SubSeq(cmd, n - k, n - 1) = Files(ResolvedFrames)
               /\ cmd[n] = File(EffectiveOutput)
     /\ pc = "done" => Len(procs) = 1

\* C20: when no encoder is given and none of the six supported programs is
\* installed, __init__ fails with the no-encoder error, the disk is as it
\* was before the job (nothing created, changed or removed) and neither a
\* converter nor an encoder has been started.
C20_NoEncoderLeavesDisk ==
  (/\ pc # "new"
   /\ IsNone(args.encoder)
   /\ installed \cap SupportedEncoders = {})
  => /\ pc = "raised"
     /\ err = "NoEncoderInstalled"
     /\ ~Constructed
     /\ fs = fs0
     /\ created = {}
     /\ procs = <<>>
     /\ cmd = <<>>
\* the job was refused for lack of an encoder although its frames exist
C20_Witness ==
  /\ pc = "raised"
  /\ err = "NoEncoderInstalled"
  /\ IsNone(args.encoder)
  /\ installed \cap SupportedEncoders = {}
  /\ args.input_files.kind = "list"
  /\ args.input_files.v # <<>>
  /\ \A i \in DOMAIN args.input_files.v : args.input_files.v[i] \in fs

\* C21 as stated: once __init__ has returned, no step of encode() changes
\* the value of any option of the job, output_file included.
C21_ConfigurationImmutable == [][Constructed => prop' = prop]_vars

\* the default output name of the job's encoder
DefaultOutputName ==
  IF Val(prop.encoder) = "convert" THEN MovieGif
  ELSE IF Val(prop.encoder) \in {"mencoder", "ffmpeg"} THEN MovieAvi
  ELSE MovieMpeg

\* C21 amended: once __init__ has returned, no step of encode() changes an
\* option other than output_file, and output_file changes only in the
\* builder, from None to the default name of the encoder; an output_file
\* that is set is never changed.
C21_OnlyOutputDefaulted ==
  [][Constructed =>
       /\ DOMAIN prop' = DOMAIN prop
       /\ \A k \in DOMAIN prop \ {"output_file"} : prop'[k] = prop[k]
       /\ prop'.output_file # prop.output_file
          => /\ pc \in {"constructed", "done"}
             /\ IsNone(prop.output_file)
             /\ prop'.output_file = Some(DefaultOutputName)]_vars
\* mencoder was given no output_file and the builder has set 'movie.avi'
C21_Witness ==
  /\ Dispatched
  /\ pc = "done"
  /\ Val(prop.encoder) = "mencoder"
  /\ IsNone(args.output_file)
  /\ prop.output_file = Some(MovieAvi)
\* a given output_file is still the one of the job when encode() has ended
C21_WitnessGiven ==
  /\ Dispatched
  /\ pc = "done"
  /\ ~IsNone(args.output_file)
  /\ prop.output_file = args.output_file

\* the files of the second job's _tmp_files
OtherTmp ==
  IF IsNone(other.tmp) THEN {}
  ELSE {Val(other.tmp)[i] : i \in DOMAIN Val(other.tmp)}

\* C22: two jobs that convert, run at once in one directory, collide on the
\* basename 'easyviz_tmp_'.  While the first job holds converted files its
\* encoder has not read yet: a second job whose builder converts a frame
\* writes over one of them, and a second job whose cleanup runs removes
\* those it shares with the first; only files named 'easyviz_tmp_...' are
\* hit.  (The witness is the reachable state in which a file of the first
\* job is gone before its encoder ran.)
C22_SharedBasenameCollision ==
  [][/\ (/\ Unconsumed # {}
         /\ other.pc = "constructed"
         /\ other'.pc # "constructed"
         /\ OtherTmp' # {})
        => other'.lost # {}
     /\ (/\ Unconsumed \cap OtherTmp # {}
         /\ prop.cleanup
         /\ other.pc = "ran"
         /\ other'.pc # "ran")
        => \E f \in Unconsumed : f \in fs /\ f \notin fs'
     /\ \A f \in other'.lost \ other.lost :
          StartsWith(f, TmpBasename) /\ f \in Unconsumed]_vars
\* the second job's cleanup removed a converted frame of the first job
\* whose encoder has not run yet
C22_Witness ==
  /\ pc = "built"
  /\ other.pc = "done"
  /\ \E f \in Unconsumed : f \notin fs /\ f \in other.lost
\* the second job's converter wrote over a converted frame of the first
C22_WitnessOverwritten ==
  /\ pc = "built"
  /\ other.pc = "built"
  /\ other.lost # {}
  /\ other.lost \subseteq fs

\* the frame rates of legal_fps, in thousandths
Mpeg2encRates == <<23976, 24000, 25000, 29970, 30000, 50000, 59940, 60000>>

\* C23: an mpeg2enc job whose fps is the k-th of 23.976, 24, 25, 29.97, 30,
\* 50, 59.94, 60 puts '-F k' into its command; with any other fps the
\* builder, once it has come to the frame rate, raises the ValueError of an
\* unsupported frame rate, and no encoder is started.
C23_Mpeg2encFrameRate ==
  (/\ Dispatched
   /\ Val(prop.encoder) = "mpeg2enc"
   /\ err \notin {"IndexError", "KeyError", "NoConverter", "NoYuvProgram",
                  "OutputExists", "OSError"})
  => IF \E k \in DOMAIN Mpeg2encRates : Mpeg2encRates[k] = args.fps.milli
     THEN pc \in {"built", "ran", "done"}
          => \E i \in DOMAIN cmd, k \in DOMAIN Mpeg2encRates :
               /\ Mpeg2encRates[k] = args.fps.milli
               /\ cmd[i] = Word("-F")
               /\ i < Len(cmd)
               /\ cmd[i + 1] = Num(k)
     ELSE /\ pc = "raised"
          /\ err = "IllegalFps"
          /\ EncoderRuns = 0

\* the Netpbm reader of the job's input type and the Netpbm writer of the
\* type its builder converts to ("" for the target pnm, which needs none)
ConversionReader == NetpbmConverters(SplitextExt(FrameFiles[1]))[1]
ConversionWriter ==
  NetpbmConverters(IF Val(prop.encoder) \in {"mpeg_encode", "ppmtompeg"}
                   THEN DotPnm ELSE DotPng)[2]
\* the Netpbm tools the job's conversion needs
NeededNetpbm == {ConversionReader, ConversionWriter} \ {""}

\* C24: a job that converts files of a convertible type uses the package
\* named by preferred_package when both convert and the needed Netpbm tools
\* are installed, the installed one when only one of them is, and fails
\* with the no-converter error, without running a conversion command, when
\* neither is.
C24_ConverterChoice ==
  (/\ Dispatched
   /\ ConvertsInput
   /\ FrameFiles # <<>>
   /\ SplitextExt(FrameFiles[1]) \in NetpbmExts
   /\ err \notin {"IllegalFps", "IllegalAspect"}
   /\ runs = 1)
  => LET im == "convert" \in installed
         np == NeededNetpbm \subseteq installed
         reader == ConversionReader
         app == ConverterApp(ConversionReader, ConversionWriter)
     IN  IF im \/ np
         THEN /\ err # "NoConverter"
              /\ Len(statuses) = Len(FrameFiles)
              /\ app = IF im /\ np
                       THEN IF prop.preferred_package = "imagemagick"
                            THEN "convert" ELSE reader
                       ELSE IF im THEN "convert" ELSE reader
         ELSE /\ pc = "raised"
              /\ err = "NoConverter"
              /\ statuses = <<>>
              /\ \A i \in DOMAIN procs : procs[i] # "converter"

\* C25: the steps of a job come in the order convert, build, execute,
\* clean up.  External commands are started by two steps only: the builder
\* step of encode() starts converters and nothing else, and the step that
\* follows it starts the one encoder command; so the encoder has run at
\* most once per call of encode(), after the converters of that call.  A
\* file is removed only by the step that follows the encoder's end.
C25_PipelineOrder ==
  [][/\ procs' # procs
        => IF pc = "built"
           THEN procs' = Append(procs, "encoder")
           ELSE /\ CanEncode
                /\ Len(procs') = Len(procs) + Len(statuses')
                /\ \A i \in (Len(procs) + 1)..Len(procs') :
                     procs'[i] = "converter"
     /\ (\E f \in fs : f \notin fs')
        => /\ pc = "ran"
           /\ ~IsNone(failure)
           /\ procs # <<>>
           /\ procs[Len(procs)] = "encoder"
     /\ EncoderRuns' <= runs'
     /\ pc' = "built" => EncoderRuns' = runs' - 1]_vars
\* two conversions, then the encoder, then the cleanup that removed the
\* converted files
C25_Witness ==
  /\ pc = "done"
  /\ procs = <<"converter", "converter", "encoder">>
  /\ created # {}
  /\ created \cap fs = {}

\* C26: an ffmpeg or mpeg2enc job whose builder returned a command.  Unless
\* the input is a printf pattern of jpg/png files and force_conversion is
\* false, every input file was given to the converter, _tmp_files is the
\* list of the copies made, easyviz_tmp_0001.png, easyviz_tmp_0002.png, ...
\* (one per conversion that exited with zero), and the encoder's input
\* argument is 'easyviz_tmp_%04d.png'.  In the excepted case the input
\* argument is the given pattern, no converter ran, nothing was written and
\* _tmp_files is not set.
C26_NumberedCopies ==
  (/\ Dispatched
   /\ Val(prop.encoder) \in {"ffmpeg", "mpeg2enc"}
   /\ pc \in {"built", "ran", "done"}
   /\ runs = 1)
  => IF \/ ~PrintfStringInput
        \/ Val(prop.file_type) \notin {Jpg, Png}
        \/ args.force_conversion
     THEN /\ Len(statuses) = NumInputs
          /\ tmp_files =
               Some([i \in 1..Converted |-> NewFile(TmpBasename, i, DotPng)])
          /\ \A i \in 1..Converted : NewFile(TmpBasename, i, DotPng) \in created
          /\ cmd[3] = File(TmpBasename \o <<"%", "0", "4", "d", ".", "p", "n", "g">>)
     ELSE /\ cmd[3] = File(args.input_files.v)
          /\ statuses = <<>>
          /\ \A i \in DOMAIN procs : procs[i] # "converter"
          /\ created = {}
          /\ IsNone(tmp_files)
\* mpeg2enc was given a wildcard and reads the numbered copies
C26_Witness ==
  /\ pc = "built"
  /\ Val(prop.encoder) = "mpeg2enc"
  /\ WildcardInput
  /\ Converted = 2
  /\ Len(Val(tmp_files)) = 2
  /\ cmd[3] = File(TmpPattern)
\* mpeg2enc was given a printf pattern of png files and passes it on
C26_WitnessVerbatim ==
  /\ pc = "built"
  /\ Val(prop.encoder) = "mpeg2enc"
  /\ PrintfStringInput
  /\ prop.file_type = Some(Png)
  /\ cmd[3] = File(args.input_files.v)
  /\ created = {}

\* every conversion command of the current encode() exited non-zero
AllConversionsFailed ==
  /\ statuses # <<>>
  /\ \A k \in DOMAIN statuses : statuses[k] # "ok"
\* a job whose builder converts, has files to convert and a converter for
\* them, and passed the checks its builder makes before converting
ConvertingJob ==
  /\ Dispatched
  /\ ConvertsInput
  /\ NumInputs > 0
  /\ runs = 1
  /\ err \notin {"KeyError", "NoConverter"}
  /\ Val(prop.encoder) \in {"mpeg_encode", "ppmtompeg"}
     => err \notin {"IllegalFps", "IllegalAspect"}

\* C27 as stated: when every conversion of a job fails, the converter raises
\* nothing and the builder of each converting encoder (mencoder, ffmpeg,
\* mpeg_encode, ppmtompeg, mpeg2enc) goes on to return a command for the
\* empty file set, which encode() executes; nothing is raised before the
\* encoder is invoked.
C27_ContinuesWithEmptySet ==
  (/\ ConvertingJob
   /\ AllConversionsFailed
   /\ err \notin {"OutputExists", "NoYuvProgram", "NameError", "IllegalAspect"})
  => /\ pc \in {"built", "ran", "done"}
     /\ pc = "done" => EncoderRuns = 1

\* C27 amended: the converter runs one command per file and raises nothing
\* whatever their exit statuses.  When all of them fail, the builders of
\* mencoder, ffmpeg and mpeg2enc go on with the empty list (_tmp_files is
\* the empty list) and, unless one of their later checks raises, return a
\* command that encode() executes; the builder of mpeg_encode and ppmtompeg
\* raises IndexError when it takes the first character of the joined file
\* names: it writes no parameter file and no encoder is started.
C27_EmptySetByEncoder ==
  ConvertingJob
  => /\ Len(statuses) = NumInputs
     /\ AllConversionsFailed
        => /\ tmp_files = Some(<<>>)
           /\ IF Val(prop.encoder) \in {"mpeg_encode", "ppmtompeg"}
              THEN /\ pc = "raised"
                   /\ err = "IndexError"
                   /\ EncoderRuns = 0
                   /\ IsNone(param_file)
                   /\ MpegEncodeFile \notin fs
              ELSE err \notin {"OutputExists", "NoYuvProgram", "NameError",
                               "IllegalAspect"}
                   => /\ pc \in {"built", "ran", "done"}
                      /\ err = "none"
                      /\ pc = "done" => EncoderRuns = 1
\* mpeg_encode: both conversions failed and the builder raised
C27_Witness ==
  /\ pc = "raised"
  /\ err = "IndexError"
  /\ Val(prop.encoder) = "mpeg_encode"
  /\ Len(statuses) = 2
  /\ AllConversionsFailed
\* mencoder: both conversions failed and the encoder was run all the same
C27_WitnessContinued ==
  /\ pc = "done"
  /\ Val(prop.encoder) = "mencoder"
  /\ Len(statuses) = 2
  /\ AllConversionsFailed
  /\ EncoderRuns = 1

\* C28: whenever the cleanup of a call of encode() is about to run with
\* cleanup true, _tmp_files names no file twice and names only files that
\* are on disk (those the current call wrote), so no os.remove is tried on
\* a file that an earlier call has removed.
C28_TmpFilesFresh ==
  (/\ pc = "ran"
   /\ prop.cleanup
   /\ ~IsNone(tmp_files))
  => LET tmp == Val(tmp_files)
     IN  /\ \A i, j \in DOMAIN tmp : i # j => tmp[i] # tmp[j]
         /\ \A i \in DOMAIN tmp : tmp[i] \in fs

\* C29: the INPUT_DIR line of the parameter file that _mpeg_encode wrote
\* names the directory part of the first file of its INPUT list, and '.'
\* when that file name has no directory part.
C29_InputDirOfFirstFile ==
  (/\ Dispatched
   /\ Val(prop.encoder) \in {"mpeg_encode", "ppmtompeg"}
   /\ ~IsNone(param_file))
  => LET first == Val(param_file).INPUT[1]
         slashes == {k \in DOMAIN first : first[k] = "/"}
         last == CHOOSE k \in slashes : \A j \in slashes : j <= k
     IN  Val(param_file).INPUT_DIR =
           IF slashes = {} THEN <<".">> ELSE SubSeq(first, 1, last - 1)

\* C30: with cleanup false no step of encode() removes a file, so every
\* file the job wrote (converted frames, the parameter file of mpeg_encode)
\* is on disk when encode() has returned, whatever the encoder's exit
\* status was.
C30_NoCleanupKeepsFiles ==
  [][~prop.cleanup
       => /\ fs \subseteq fs'
          /\ pc' = "done" => created \subseteq fs']_vars
\* a job without cleanup whose encoder failed: its copies and nothing less
\* are on disk
C30_Witness ==
  /\ pc = "done"
  /\ ~prop.cleanup
  /\ failure = Some(1)
  /\ Cardinality(created) >= 2
  /\ created \subseteq fs
\* the same after an encoder that exited with zero
C30_WitnessSuccess ==
  /\ pc = "done"
  /\ ~prop.cleanup
  /\ failure = Some(0)
  /\ MpegEncodeFile \in created
  /\ created \subseteq fs

====
